---- MODULE Spec2Model ----
(***************************************************************************)
(* A model of the epoll reactor of practice-socket (rust/src/main.rs and   *)
(* rust/src/epoll.rs): the Epoll wrapper, the event loop of main, and the  *)
(* part of the kernel the loop talks to (descriptor table, accept queue,   *)
(* socket receive queues, the epoll interest list and ready list).         *)
(*                                                                         *)
(* A 32-bit flag word is the set of the positions of its one bits, so that *)
(* union is \cup, intersection is \cap and containment is \subseteq.       *)
(***************************************************************************)
EXTENDS Integers, Sequences, FiniteSets, TLC

\* ------------------------------------------------------------------ bounds
\* Number of clients that may ever connect.
MaxConns == 2
\* Number of messages the clients may send, all together.
MaxSends == 1
\* Number of events in one report of the kernel, where reports are enumerated.
MaxReport == 2

\* ------------------------------------------------------- program constants
\* vec![0u8; 1024]: the read buffer of one event.
BufSize == 1024
\* self.events.resize(1024, ..): the capacity of one wait.
MaxEvents == 1024
\* Duration::from_secs(60): the timeout of one wait.
TimeoutSecs == 60
\* The listener is the first descriptor the process opens after stdio.
ListenerFd == 3
\* epoll_create(1) is the second.
EpollFd == 4

\* ------------------------------------------------------------ EventFlags
EPOLLIN == {0}
EPOLLPRI == {1}
EPOLLOUT == {2}
EPOLLERR == {3}
EPOLLHUP == {4}
EPOLLRDHUP == {13}
EPOLLEXCLUSIVE == {28}
EPOLLWAKEUP == {29}
EPOLLONESHOT == {30}
EPOLLET == {31}

\* Every flag the bitflags! block declares.
AllFlags ==
  EPOLLET \cup EPOLLIN \cup EPOLLERR \cup EPOLLHUP \cup EPOLLOUT \cup EPOLLPRI
    \cup EPOLLRDHUP \cup EPOLLWAKEUP \cup EPOLLONESHOT \cup EPOLLEXCLUSIVE

\* EventFlags::bits: the word of a flag set.
Bits(flags) == flags

\* The decoding written with from_bits: a word with an unknown bit gives None,
\* replaced by the empty set.
FromBitsTruncate_OrEmpty(word) == IF word \subseteq AllFlags THEN word ELSE {}

\* EventFlags::from_bits_truncate: unknown bits are dropped.
FromBitsTruncate(word) == word \cap AllFlags

\* EventFlags::contains.
Contains(flags, other) == other \subseteq flags

\* The flags main registers the listener with.
ListenerFlags == EPOLLET \cup EPOLLIN

\* The accepted stream registered without EPOLLET: level-triggered.
ClientFlags_Level == EPOLLIN \cup EPOLLHUP \cup EPOLLRDHUP

\* The flags main registers an accepted stream with.
ClientFlags == EPOLLIN \cup EPOLLET \cup EPOLLHUP \cup EPOLLRDHUP

\* ------------------------------------------------------------ conversions
\* TLC's integers are 32 bits wide, so a wider unsigned integer is held in
\* pieces. A u64 is its two 32-bit halves, each read as two's complement.

\* `x as u64` of an i32: sign extension.
AsU64(x) == [hi |-> IF x < 0 THEN -1 ELSE 0, lo |-> x]

\* `x as RawFd` of a u64: the low 32 bits.
U64AsI32(u) == u.lo

\* A u128 is the sequence of its base-65536 digits, lowest first.
Limb == 2 ^ 16

\* The digits of a natural number below 2^31.
Limbs(x) == <<x % Limb, x \div Limb>>

\* limbs * factor + carry, for a factor below 2^15.
RECURSIVE MulAdd(_, _, _)
MulAdd(limbs, factor, carry) ==
  IF limbs = <<>>
  THEN IF carry = 0 THEN <<>> ELSE <<carry>>
  ELSE LET t == Head(limbs) * factor + carry
       IN  <<t % Limb>> \o MulAdd(Tail(limbs), factor, t \div Limb)

\* Duration::from_secs.
FromSecs(secs) == [secs |-> Limbs(secs), nanos |-> 0]

\* Duration::as_millis: secs * 1000 + nanos / 1_000_000, a u128.
AsMillis(d) == MulAdd(d.secs, 1000, d.nanos \div 1000000)

\* `x as i32` of a u128: the low 32 bits, read as two's complement.
AsI32(x) ==
  LET l0 == IF Len(x) >= 1 THEN x[1] ELSE 0
      l1 == IF Len(x) >= 2 THEN x[2] ELSE 0
  IN  IF l1 >= 32768 THEN l0 + (l1 - Limb) * Limb ELSE l0 + l1 * Limb

\* syscall! with the test written `res <= 0`: a count of zero is an error.
Syscall_ZeroIsError(res) ==
  IF res <= 0 THEN [ok |-> FALSE, val |-> res] ELSE [ok |-> TRUE, val |-> res]

\* syscall!: -1 is the error, anything else the value.
Syscall(res) ==
  IF res = -1 THEN [ok |-> FALSE, val |-> res] ELSE [ok |-> TRUE, val |-> res]

Min(a, b) == IF a < b THEN a ELSE b

\* ------------------------------------------------------------ byte strings
\* A byte string is the sequence of its runs, [b |-> byte, n |-> length], no
\* run empty and no two neighbours of the same byte: every byte string has
\* exactly one such form, so equal strings are equal values.
Run(b, n) == [b |-> b, n |-> n]

\* n times the byte b.
Fill(b, n) == IF n <= 0 THEN <<>> ELSE <<Run(b, n)>>

\* The number of bytes.
RECURSIVE ByteLen(_)
ByteLen(s) == IF s = <<>> THEN 0 ELSE Head(s).n + ByteLen(Tail(s))

\* s followed by t.
Concat(s, t) ==
  IF s = <<>> THEN t
  ELSE IF t = <<>> THEN s
  ELSE IF s[Len(s)].b = t[1].b
  THEN SubSeq(s, 1, Len(s) - 1) \o <<Run(t[1].b, s[Len(s)].n + t[1].n)>> \o Tail(t)
  ELSE s \o t

\* The first n bytes of s.
RECURSIVE Take(_, _)
Take(s, n) ==
  IF n <= 0 \/ s = <<>> THEN <<>>
  ELSE IF Head(s).n <= n THEN <<Head(s)>> \o Take(Tail(s), n - Head(s).n)
  ELSE <<Run(Head(s).b, n)>>

\* s without its first n bytes.
RECURSIVE Drop(_, _)
Drop(s, n) ==
  IF n <= 0 \/ s = <<>> THEN s
  ELSE IF Head(s).n <= n THEN Drop(Tail(s), n - Head(s).n)
  ELSE <<Run(Head(s).b, Head(s).n - n)>> \o Tail(s)

\* String::from_utf8_lossy on the bytes the model's clients send: an ASCII
\* byte is its own character, and 0xFF (never part of a UTF-8 sequence) is
\* replaced by U+FFFD.
RECURSIVE FromUtf8Lossy(_)
FromUtf8Lossy(bytes) ==
  IF bytes = <<>> THEN <<>>
  ELSE Concat(<<Run(IF Head(bytes).b < 128 THEN Head(bytes).b ELSE 65533, Head(bytes).n)>>,
              FromUtf8Lossy(Tail(bytes)))

\* ---------------------------------------------------------------- clients
Conns == 1..MaxConns

\* The peer address of client c, as accept reports it.
PeerAddr(c) == 40000 + c

\* "ping".
Ping == <<Run(112, 1), Run(105, 1), Run(110, 1), Run(103, 1)>>

\* One byte more than the read buffer holds, the first of them not valid UTF-8.
Big == <<Run(255, 1), Run(97, BufSize)>>

Messages == {Ping, Big}

VARIABLES
  pc,       \* "wait": blocked in epoll.wait; "events": inside the for loop; "done": main returned or panicked
  batch,    \* the events of the current wait not yet processed
  clients,  \* the HashMap<RawFd, ClientData>
  out,      \* what the last step printed, in order
  last,     \* what the last step of the loop did
  kernel,   \* descriptor table, accept queue, sockets, interest list, ready list
  counts,   \* per client: how often "connected" and "disconnected" were printed
  sent,     \* how many messages the clients have sent
  added     \* the descriptors with a successful add not followed by a successful delete

vars == <<pc, batch, clients, out, last, kernel, counts, sent, added>>

\* ----------------------------------------------------------------- kernel
\* The kernel side is a record:
\*   fdtab     descriptor -> the connection it is open on
\*   acceptq   the listener's queue of connections not yet accepted
\*   sock      per connection: st ("idle", "queued", "open", "closed"), rx (the
\*             bytes received and not yet read), fin (peer closed), rst (peer
\*             reset)
\*   interest  the epoll interest list: descriptor -> epoll_event
\*   rdlist    the epoll ready list: descriptors with a wakeup not yet reported

\* The descriptors the process holds open.
OpenFds(k) == {ListenerFd, EpollFd} \cup DOMAIN k.fdtab

\* POSIX: a new descriptor is the lowest number not open (0, 1, 2 are stdio).
LowestFree(k) ==
  CHOOSE n \in 3..(MaxConns + 5) :
    /\ n \notin OpenFds(k)
    /\ \A m \in 3..(n - 1) : m \in OpenFds(k)

\* What poll reports for a descriptor now.
PollMask(k, fd) ==
  IF fd = ListenerFd
  THEN IF k.acceptq # <<>> THEN EPOLLIN ELSE {}
  ELSE IF fd \notin DOMAIN k.fdtab
  THEN {}
  ELSE LET s == k.sock[k.fdtab[fd]]
       IN  (IF s.rx # <<>> \/ s.fin \/ s.rst THEN EPOLLIN ELSE {})
             \cup (IF s.fin \/ s.rst THEN EPOLLRDHUP ELSE {})
             \cup (IF s.rst THEN EPOLLHUP \cup EPOLLERR ELSE {})

\* What epoll reports for a registered descriptor now: the requested
\* conditions, and error and hangup whether requested or not.
Revents(k, fd) ==
  PollMask(k, fd) \cap (k.interest[fd].events \cup EPOLLERR \cup EPOLLHUP)

\* A wakeup on a descriptor: a registered descriptor goes on the ready list.
Wakeup(k, fd) ==
  IF fd \in DOMAIN k.interest THEN [k EXCEPT !.rdlist = @ \cup {fd}] ELSE k

\* The descriptor a connection is open on, as a set (empty before accept).
FdsOf(k, c) == {fd \in DOMAIN k.fdtab : k.fdtab[fd] = c}

\* The connection a descriptor is open on (0: none, or the listener).
ConnOf(k, fd) == IF fd \in DOMAIN k.fdtab THEN k.fdtab[fd] ELSE 0

\* A wakeup on every descriptor of a connection.
WakeupConn(k, c) ==
  [k EXCEPT !.rdlist = @ \cup (FdsOf(k, c) \cap DOMAIN k.interest)]

\* close(fd): the descriptor is free again, and the kernel drops its epoll
\* registration with it.
SysClose(k, fd) ==
  IF fd \notin DOMAIN k.fdtab
  THEN k
  ELSE [k EXCEPT
         !.sock[k.fdtab[fd]] =
           [st |-> "closed", rx |-> <<>>, fin |-> FALSE, rst |-> FALSE],
         !.fdtab = [f \in DOMAIN k.fdtab \ {fd} |-> k.fdtab[f]],
         !.interest = [f \in DOMAIN k.interest \ {fd} |-> k.interest[f]],
         !.rdlist = @ \ {fd}]

\* accept on the non-blocking listener. emfile: the kernel is out of
\* descriptors (or the connection was aborted): the failure leaves the queue.
SysAccept(k, emfile) ==
  IF k.acceptq = <<>> \/ emfile
  THEN [ok |-> FALSE, fd |-> -1, addr |-> 0, conn |-> 0, k |-> k]
  ELSE LET c == Head(k.acceptq)
           fd == LowestFree(k)
       IN  [ok |-> TRUE, fd |-> fd, addr |-> PeerAddr(c), conn |-> c,
            k |-> [k EXCEPT !.acceptq = Tail(@),
                            !.fdtab = (fd :> c) @@ @,
                            !.sock[c].st = "open"]]

\* Whether read on the (blocking) stream returns at once.
ReadReturns(k, fd) ==
  /\ fd \in DOMAIN k.fdtab
  /\ LET s == k.sock[k.fdtab[fd]] IN s.rx # <<>> \/ s.fin \/ s.rst

\* read(fd, buf, len): queued bytes first, then the pending error, then
\* end of stream.
SysRead(k, fd, len) ==
  LET c == k.fdtab[fd]
      s == k.sock[c]
      n == Min(ByteLen(s.rx), len)
  IN  IF s.rx # <<>>
      THEN [ok |-> TRUE, n |-> n, data |-> Take(s.rx, n),
            k |-> [k EXCEPT !.sock[c].rx = Drop(s.rx, n)]]
      ELSE IF s.rst
      THEN [ok |-> FALSE, n |-> -1, data |-> <<>>, k |-> k]
      ELSE [ok |-> TRUE, n |-> 0, data |-> <<>>, k |-> k]

\* libc::EPOLL_CTL_ADD, EPOLL_CTL_DEL, EPOLL_CTL_MOD.
Ctl_Add == 1
Ctl_Del == 2
Ctl_Mod == 3

\* The flags EPOLLEXCLUSIVE may be combined with.
ExclusiveOk ==
  EPOLLEXCLUSIVE \cup EPOLLIN \cup EPOLLOUT \cup EPOLLWAKEUP \cup EPOLLET
    \cup EPOLLHUP \cup EPOLLERR

\* The ready list after (re)registering fd: it is on the list iff it is ready.
Repoll(k, fd) ==
  IF Revents(k, fd) # {}
  THEN [k EXCEPT !.rdlist = @ \cup {fd}]
  ELSE k

\* epoll_ctl(epfd, op, fd, event). nomem: the kernel cannot allocate the
\* registration (ENOMEM, ENOSPC), which only an add needs.
SysEpollCtl(k, op, fd, event, nomem) ==
  IF fd \notin OpenFds(k) \/ fd = EpollFd
  THEN [res |-> -1, k |-> k]
  ELSE IF op = Ctl_Add
  THEN IF \/ fd \in DOMAIN k.interest
          \/ nomem
          \/ (EPOLLEXCLUSIVE \subseteq event.events /\ ~(event.events \subseteq ExclusiveOk))
       THEN [res |-> -1, k |-> k]
       ELSE [res |-> 0, k |-> Repoll([k EXCEPT !.interest = (fd :> event) @@ @], fd)]
  ELSE IF op = Ctl_Mod
  THEN IF \/ fd \notin DOMAIN k.interest
          \/ EPOLLEXCLUSIVE \subseteq event.events
          \/ EPOLLEXCLUSIVE \subseteq k.interest[fd].events
       THEN [res |-> -1, k |-> k]
       ELSE [res |-> 0, k |-> Repoll([k EXCEPT !.interest[fd] = event], fd)]
  ELSE IF op = Ctl_Del
  THEN IF fd \notin DOMAIN k.interest
       THEN [res |-> -1, k |-> k]
       ELSE [res |-> 0,
             k |-> [k EXCEPT
                     !.interest = [f \in DOMAIN k.interest \ {fd} |-> k.interest[f]],
                     !.rdlist = @ \ {fd}]]
  ELSE [res |-> -1, k |-> k]

\* The descriptors of the ready list that have something to report.
ReadySet(k) == {fd \in k.rdlist : Revents(k, fd) # {}}

\* The orders in which the kernel may report a set of descriptors.
Orders(S) ==
  {s \in [1..Cardinality(S) -> S] : \A i, j \in DOMAIN s : i # j => s[i] # s[j]}

\* epoll_wait(epfd, buf, maxevents, timeout), returning at most maxevents
\* events in the given order. intr: a signal interrupts the call. With nothing
\* ready the call returns 0 when the timeout runs out. A reported
\* edge-triggered descriptor leaves the ready list; so does one with nothing
\* to report. One-shot registrations, which main never makes, are not
\* modelled. (of: the connection the event was raised for, which the real
\* event does not carry; it is kept to state what the loop may not confuse.)
SysEpollWait(k, maxevents, timeout, intr, order) ==
  IF intr
  THEN [res |-> -1, events |-> <<>>, k |-> k]
  ELSE LET n == Min(Len(order), maxevents)
           told == {order[i] : i \in 1..n}
       IN  [res |-> n,
            events |-> [i \in 1..n |->
                         [events |-> Revents(k, order[i]),
                          u64 |-> k.interest[order[i]].u64,
                          of |-> ConnOf(k, order[i])]],
            k |-> [k EXCEPT !.rdlist =
                     {fd \in ReadySet(k) :
                        fd \notin told \/ ~(EPOLLET \subseteq k.interest[fd].events)}]]

\* Whether epoll_wait returns: something is ready, or the timeout is finite.
WaitReturns(k, timeout) == ReadySet(k) # {} \/ timeout >= 0

\* ------------------------------------------------------------------ Epoll
\* Epoll::_ctl: the syscall's result, and the kernel after it.
Epoll_ctl(k, option, fd, event, nomem) ==
  LET r == SysEpollCtl(k, option, fd, event, nomem)
  IN  [ok |-> Syscall(r.res).ok, k |-> r.k]

\* Epoll::add with the tag taken from the wrong descriptor: self.epoll_fd.
Epoll_add_TagEpfd(k, fd, flags, nomem) ==
  Epoll_ctl(k, Ctl_Add, fd, [events |-> Bits(flags), u64 |-> AsU64(EpollFd)], nomem)

\* Epoll::add: the tag stored with the kernel is the raw descriptor.
Epoll_add(k, fd, flags, nomem) ==
  Epoll_ctl(k, Ctl_Add, fd, [events |-> Bits(flags), u64 |-> AsU64(fd)], nomem)

\* Epoll::modify with the option copied from add.
Epoll_modify_AsAdd(k, fd, flags) ==
  Epoll_ctl(k, Ctl_Add, fd, [events |-> Bits(flags), u64 |-> AsU64(fd)], FALSE)

\* Epoll::modify.
Epoll_modify(k, fd, flags) ==
  Epoll_ctl(k, Ctl_Mod, fd, [events |-> Bits(flags), u64 |-> AsU64(fd)], FALSE)

\* Epoll::delete: the event pointer is null.
Epoll_delete(k, fd) ==
  Epoll_ctl(k, Ctl_Del, fd, [events |-> {}, u64 |-> AsU64(0)], FALSE)

\* Epoll::wait, line 143: the timeout handed to epoll_wait,
\* timeout.as_millis() as i32.
WaitTimeout(timeout) == AsI32(AsMillis(timeout))

\* Epoll::wait, lines 145-148: the first event_len slots of the buffer, each
\* mapped to an Event, in order.
Epoll_collect(events, event_len) ==
  [i \in 1..event_len |->
    [fd |-> U64AsI32(events[i].u64),
     flags |-> FromBitsTruncate(events[i].events),
     of |-> events[i].of]]

\* Epoll::wait: the first event_len slots of the buffer, decoded.
Epoll_wait(k, timeout, intr, order) ==
  LET r == SysEpollWait(k, MaxEvents, WaitTimeout(timeout), intr, order)
      event_len == Syscall(r.res)
  IN  IF ~event_len.ok
      THEN [ok |-> FALSE, res |-> r.res, events |-> <<>>, k |-> r.k]
      ELSE [ok |-> TRUE, res |-> r.res,
            events |-> Epoll_collect(r.events, event_len.val),
            k |-> r.k]

\* ------------------------------------------------------------------- main
\* HashMap::insert: the value under the key is replaced.
HashMapInsert(map, key, value) == (key :> value) @@ map

\* The teardown without its clients.remove.
HashMapRemove_Forgotten(map, key) == map

\* HashMap::remove.
HashMapRemove(map, key) == [f \in DOMAIN map \ {key} |-> map[f]]

\* The streams a change of the table drops.
Dropped(old, new) ==
  {old[f].stream : f \in DOMAIN old} \ {new[f].stream : f \in DOMAIN new}

\* Dropping a TcpStream closes its descriptor.
RECURSIVE DropStreams(_, _)
DropStreams(k, streams) ==
  IF streams = {}
  THEN k
  ELSE LET fd == CHOOSE f \in streams : TRUE
       IN  DropStreams(SysClose(k, fd), streams \ {fd})

\* The client an address belongs to.
ConnOfAddr(addr) == addr - 40000

\* The state one pass of the loop body works on: the table, the kernel, what
\* was printed, and a record of what happened (fault: the error that ends
\* main, "none" while it runs).
Body(k, cl, cnt, ad) ==
  [clients |-> cl, k |-> k, out |-> <<>>, counts |-> cnt, added |-> ad,
   fault |-> "none", conn |-> 0, rd |-> "none", n |-> 0, data |-> <<>>,
   torn |-> FALSE]

\* println! of a line of the given kind.
Println(m, kind, addr, text) ==
  [m EXCEPT
    !.out = Append(@, [kind |-> kind, addr |-> addr, text |-> text]),
    !.counts = IF kind \in {"connected", "disconnected"}
               THEN [@ EXCEPT ![ConnOfAddr(addr)][kind] = @ + 1]
               ELSE @]

\* The listener's branch with the insert written before the add.
AcceptBranch_InsertFirst(m, emfile, nomem) ==
  LET acc == SysAccept(m.k, emfile)
  IN  IF ~acc.ok
      THEN [m EXCEPT !.fault = "accept"]
      ELSE LET table == HashMapInsert(m.clients, acc.fd,
                                      [stream |-> acc.fd, addr |-> acc.addr])
               add == Epoll_add(acc.k, acc.fd, ClientFlags, nomem)
               m1 == [m EXCEPT !.clients = table, !.conn = acc.conn, !.k = add.k]
           IN  IF ~add.ok
               THEN [m1 EXCEPT !.fault = "add"]
               ELSE Println([m1 EXCEPT !.added = @ \cup {acc.fd}],
                            "connected", acc.addr, <<>>)

\* The listener's branch with the table keyed by the listener's descriptor.
AcceptBranch_KeyListener(m, emfile, nomem) ==
  LET acc == SysAccept(m.k, emfile)
  IN  IF ~acc.ok
      THEN [m EXCEPT !.fault = "accept"]
      ELSE LET add == Epoll_add(acc.k, acc.fd, ClientFlags, nomem)
           IN  IF ~add.ok
               THEN [m EXCEPT !.fault = "add", !.conn = acc.conn,
                              !.k = SysClose(add.k, acc.fd)]
               ELSE LET table == HashMapInsert(m.clients, ListenerFd,
                                               [stream |-> acc.fd, addr |-> acc.addr])
                        m1 == [m EXCEPT !.clients = table, !.conn = acc.conn,
                                        !.added = @ \cup {acc.fd},
                                        !.k = DropStreams(add.k, Dropped(m.clients, table))]
                    IN  Println(m1, "connected", acc.addr, <<>>)

\* The listener's branch without its `continue`: the event falls through to
\* the test for readable, which looks the listener's descriptor up in the table.
AcceptBranch_FallThrough(m, emfile, nomem) ==
  LET acc == SysAccept(m.k, emfile)
  IN  IF ~acc.ok
      THEN [m EXCEPT !.fault = "accept"]
      ELSE LET add == Epoll_add(acc.k, acc.fd, ClientFlags, nomem)
           IN  IF ~add.ok
               THEN [m EXCEPT !.fault = "add", !.conn = acc.conn,
                              !.k = SysClose(add.k, acc.fd)]
               ELSE LET table == HashMapInsert(m.clients, acc.fd,
                                               [stream |-> acc.fd, addr |-> acc.addr])
                        m1 == [m EXCEPT !.clients = table, !.conn = acc.conn,
                                        !.added = @ \cup {acc.fd},
                                        !.k = DropStreams(add.k, Dropped(m.clients, table))]
                        m2 == Println(m1, "connected", acc.addr, <<>>)
                    IN  IF ListenerFd \notin DOMAIN m2.clients
                        THEN [m2 EXCEPT !.fault = "lookup"]
                        ELSE m2

\* main, lines 26-30: the listener's branch.
AcceptBranch(m, emfile, nomem) ==
  LET acc == SysAccept(m.k, emfile)
  IN  IF ~acc.ok
      THEN [m EXCEPT !.fault = "accept"]
      ELSE LET add == Epoll_add(acc.k, acc.fd, ClientFlags, nomem)
           IN  IF ~add.ok
               THEN [m EXCEPT !.fault = "add", !.conn = acc.conn,
                              !.k = SysClose(add.k, acc.fd)]
               ELSE LET table == HashMapInsert(m.clients, acc.fd,
                                               [stream |-> acc.fd, addr |-> acc.addr])
                        m1 == [m EXCEPT !.clients = table, !.conn = acc.conn,
                                        !.added = @ \cup {acc.fd},
                                        !.k = DropStreams(add.k, Dropped(m.clients, table))]
                    IN  Println(m1, "connected", acc.addr, <<>>)

\* The read written as a loop: a second read when the first filled the buffer
\* and more is queued.
ReadBranch_Again(m, event) ==
  IF event.fd \notin DOMAIN m.clients
  THEN [m EXCEPT !.fault = "lookup"]
  ELSE LET client == m.clients[event.fd]
           r1 == SysRead(m.k, client.stream, BufSize)
           more == r1.ok /\ r1.n = BufSize /\ ReadReturns(r1.k, client.stream)
           r == IF more THEN SysRead(r1.k, client.stream, BufSize) ELSE r1
           buffer == Concat(r.data, Drop(Fill(0, BufSize), r.n))
       IN  IF ~r.ok
           THEN [m EXCEPT !.fault = "read", !.rd = "err", !.k = r1.k,
                          !.conn = ConnOf(m.k, client.stream)]
           ELSE Println([m EXCEPT !.k = r.k, !.rd = "ok", !.n = r.n, !.data = r.data,
                                  !.conn = ConnOf(m.k, client.stream)],
                      "data", client.addr, FromUtf8Lossy(buffer))

\* The read with its error handled for the one connection: nothing is
\* printed and the loop goes on to the second test.
ReadBranch_ErrSkipped(m, event) ==
  IF event.fd \notin DOMAIN m.clients
  THEN [m EXCEPT !.fault = "lookup"]
  ELSE LET client == m.clients[event.fd]
           r == SysRead(m.k, client.stream, BufSize)
           buffer == Concat(r.data, Drop(Fill(0, BufSize), r.n))
       IN  IF ~r.ok
           THEN [m EXCEPT !.rd = "err", !.conn = ConnOf(m.k, client.stream)]
           ELSE Println([m EXCEPT !.k = r.k, !.rd = "ok", !.n = r.n, !.data = r.data,
                                  !.conn = ConnOf(m.k, client.stream)],
                      "data", client.addr, FromUtf8Lossy(buffer))

\* The read with end of stream handled on the spot: a read of 0 bytes
\* deletes and erases the connection, and the second test follows as before.
ReadBranch_CloseOnEof(m, event) ==
  IF event.fd \notin DOMAIN m.clients
  THEN [m EXCEPT !.fault = "lookup"]
  ELSE LET client == m.clients[event.fd]
           r == SysRead(m.k, client.stream, BufSize)
           buffer == Concat(r.data, Drop(Fill(0, BufSize), r.n))
           m1 == Println([m EXCEPT !.k = r.k, !.rd = "ok", !.n = r.n, !.data = r.data,
                                   !.conn = ConnOf(m.k, client.stream)],
                         "data", client.addr, FromUtf8Lossy(buffer))
           del == Epoll_delete(m1.k, event.fd)
           table == HashMapRemove(m1.clients, event.fd)
       IN  IF ~r.ok
           THEN [m EXCEPT !.fault = "read", !.rd = "err",
                          !.conn = ConnOf(m.k, client.stream)]
           ELSE IF r.n # 0
           THEN m1
           ELSE IF ~del.ok
           THEN [m1 EXCEPT !.fault = "delete"]
           ELSE [m1 EXCEPT !.clients = table, !.added = @ \ {event.fd},
                           !.k = DropStreams(del.k, Dropped(m1.clients, table))]

\* main, lines 33-38: one read into a fresh buffer; the whole buffer is printed.
ReadBranch(m, event) ==
  IF event.fd \notin DOMAIN m.clients
  THEN [m EXCEPT !.fault = "lookup"]
  ELSE LET client == m.clients[event.fd]
           r == SysRead(m.k, client.stream, BufSize)
           buffer == Concat(r.data, Drop(Fill(0, BufSize), r.n))
       IN  IF ~r.ok
           THEN [m EXCEPT !.fault = "read", !.rd = "err",
                          !.conn = ConnOf(m.k, client.stream)]
           ELSE Println([m EXCEPT !.k = r.k, !.rd = "ok", !.n = r.n, !.data = r.data,
                                  !.conn = ConnOf(m.k, client.stream)],
                      "data", client.addr, FromUtf8Lossy(buffer))

\* The teardown with the erase written before the delete: the stream is
\* dropped, and so closed, before the Multiplexer is asked to forget it.
HupBranch_EraseFirst(m, event) ==
  LET m1 == Println(m, "hup", 0,
                  <<Contains(event.flags, EPOLLHUP), Contains(event.flags, EPOLLRDHUP)>>)
  IN  IF event.fd \notin DOMAIN m.clients
      THEN [m1 EXCEPT !.fault = "lookup"]
      ELSE LET client == m.clients[event.fd]
               m2 == Println(m1, "disconnected", client.addr, <<>>)
               table == HashMapRemove(m2.clients, event.fd)
               m3 == [m2 EXCEPT !.clients = table,
                                !.k = DropStreams(m2.k, Dropped(m2.clients, table))]
               del == Epoll_delete(m3.k, event.fd)
           IN  IF ~del.ok
               THEN [m3 EXCEPT !.fault = "delete"]
               ELSE [m3 EXCEPT !.torn = TRUE, !.added = @ \ {event.fd}, !.k = del.k]

\* main, lines 40-46: the teardown.
HupBranch(m, event) ==
  LET m1 == Println(m, "hup", 0,
                  <<Contains(event.flags, EPOLLHUP), Contains(event.flags, EPOLLRDHUP)>>)
  IN  IF event.fd \notin DOMAIN m.clients
      THEN [m1 EXCEPT !.fault = "lookup"]
      ELSE LET client == m.clients[event.fd]
               m2 == Println(m1, "disconnected", client.addr, <<>>)
               del == Epoll_delete(m2.k, event.fd)
           IN  IF ~del.ok
               THEN [m2 EXCEPT !.fault = "delete"]
               ELSE LET table == HashMapRemove(m2.clients, event.fd)
                    IN  [m2 EXCEPT !.clients = table, !.torn = TRUE,
                                   !.added = @ \ {event.fd},
                                   !.k = DropStreams(del.k, Dropped(m2.clients, table))]

\* The two tests written as if / else if: no teardown after a read.
ClientBranches_ElseIf(m, event) ==
  IF Contains(event.flags, EPOLLIN)
  THEN ReadBranch(m, event)
  ELSE IF Contains(event.flags, EPOLLHUP) \/ Contains(event.flags, EPOLLRDHUP)
  THEN HupBranch(m, event)
  ELSE m

\* The two tests in the other order: the teardown first, then the read.
ClientBranches_HupFirst(m, event) ==
  LET m1 == IF Contains(event.flags, EPOLLHUP) \/ Contains(event.flags, EPOLLRDHUP)
            THEN HupBranch(m, event)
            ELSE m
  IN  IF m1.fault = "none" /\ Contains(event.flags, EPOLLIN)
      THEN ReadBranch(m1, event)
      ELSE m1

\* main, lines 33-46: the two tests on a client's event, in order.
ClientBranches(m, event) ==
  LET m1 == IF Contains(event.flags, EPOLLIN) THEN ReadBranch(m, event) ELSE m
  IN  IF m1.fault = "none"
         /\ (Contains(event.flags, EPOLLHUP) \/ Contains(event.flags, EPOLLRDHUP))
      THEN HupBranch(m1, event)
      ELSE m1

\* What the last step did, for the step that did op on event.
Record(op, event, m) ==
  [op |-> op, fd |-> event.fd, flags |-> event.flags, of |-> event.of,
   fault |-> m.fault, conn |-> m.conn, rd |-> m.rd, n |-> m.n, data |-> m.data,
   torn |-> m.torn]

NoEvent == [fd |-> 0, flags |-> {}, of |-> 0]

\* The end of one pass of the for loop: an error ends main, otherwise the next
\* event, or the next wait when the batch is used up.
Commit(op, event, m) ==
  /\ clients' = m.clients
  /\ kernel' = m.k
  /\ out' = m.out
  /\ counts' = m.counts
  /\ added' = m.added
  /\ last' = Record(op, event, m)
  /\ batch' = Tail(batch)
  /\ pc' = IF m.fault # "none" THEN "done"
           ELSE IF Tail(batch) = <<>> THEN "wait" ELSE "events"
  /\ UNCHANGED sent

\* main, line 24: epoll.wait(Duration::from_secs(60))?
Wait ==
  /\ pc = "wait"
  /\ WaitReturns(kernel, WaitTimeout(FromSecs(TimeoutSecs)))
  /\ \E intr \in BOOLEAN, order \in Orders(ReadySet(kernel)) :
       LET r == Epoll_wait(kernel, FromSecs(TimeoutSecs), intr, order)
       IN  /\ kernel' = r.k
           /\ batch' = r.events
           /\ pc' = IF ~r.ok THEN "done"
                    ELSE IF r.events = <<>> THEN "wait" ELSE "events"
           /\ last' = [Record("wait", NoEvent, Body(kernel, clients, counts, added)) EXCEPT
                         !.n = r.res,
                         !.fault = IF r.ok THEN "none" ELSE "wait"]
           /\ out' = <<>>
           /\ UNCHANGED <<clients, counts, sent, added>>

\* main, lines 25-31: an event on the listener.
ListenerEvent ==
  /\ pc = "events"
  /\ batch # <<>>
  /\ Head(batch).fd = ListenerFd
  /\ \E emfile \in BOOLEAN, nomem \in BOOLEAN :
       Commit("accept", Head(batch),
              AcceptBranch(Body(kernel, clients, counts, added), emfile, nomem))

\* main, lines 33-46: an event on any other descriptor. The stream is
\* blocking, so the step waits for the read to return.
ClientEvent ==
  /\ pc = "events"
  /\ batch # <<>>
  /\ Head(batch).fd # ListenerFd
  /\ LET event == Head(batch)
     IN  /\ (Contains(event.flags, EPOLLIN) /\ event.fd \in DOMAIN clients)
              => ReadReturns(kernel, clients[event.fd].stream)
         /\ Commit("client", event,
                   ClientBranches(Body(kernel, clients, counts, added), event))

\* ------------------------------------------------------------ the clients
Running == pc # "done"

\* A step of a client: the loop does not move and prints nothing.
Peer ==
  /\ out' = <<>>
  /\ last' = Record("peer", NoEvent, Body(kernel, clients, counts, added))
  /\ UNCHANGED <<pc, batch, clients, counts, added>>

\* Client c connects: it joins the accept queue, which wakes the listener.
ClientConnect(c) ==
  /\ Running
  /\ kernel.sock[c].st = "idle"
  /\ kernel' = Wakeup([kernel EXCEPT !.sock[c].st = "queued",
                                     !.acceptq = Append(@, c)], ListenerFd)
  /\ Peer
  /\ UNCHANGED sent

Connected(c) ==
  /\ kernel.sock[c].st \in {"queued", "open"}
  /\ ~kernel.sock[c].fin
  /\ ~kernel.sock[c].rst

\* Client c sends a message: it joins the receive queue, which wakes the stream.
ClientSend(c, msg) ==
  /\ Running
  /\ Connected(c)
  /\ sent < MaxSends
  /\ sent' = sent + 1
  /\ kernel' = WakeupConn([kernel EXCEPT !.sock[c].rx = Concat(@, msg)], c)
  /\ Peer

\* Client c closes its side.
ClientClose(c) ==
  /\ Running
  /\ Connected(c)
  /\ kernel' = WakeupConn([kernel EXCEPT !.sock[c].fin = TRUE], c)
  /\ Peer
  /\ UNCHANGED sent

\* Client c resets the connection.
ClientReset(c) ==
  /\ Running
  /\ Connected(c)
  /\ kernel' = WakeupConn([kernel EXCEPT !.sock[c].rst = TRUE], c)
  /\ Peer
  /\ UNCHANGED sent

\* ---------------------------------------------------------- specification
\* The kernel before main registers anything.
Boot ==
  [fdtab |-> <<>>,
   acceptq |-> <<>>,
   sock |-> [c \in Conns |->
              [st |-> "idle", rx |-> <<>>, fin |-> FALSE, rst |-> FALSE]],
   interest |-> <<>>,
   rdlist |-> {}]

\* main, lines 11-21: the listener is registered and the table is empty.
Init ==
  /\ pc = "wait"
  /\ batch = <<>>
  /\ clients = <<>>
  /\ out = <<>>
  /\ last = Record("init", NoEvent, Body(Boot, <<>>, <<>>, {}))
  /\ kernel = Epoll_add(Boot, ListenerFd, ListenerFlags, FALSE).k
  /\ counts = [c \in Conns |-> [connected |-> 0, disconnected |-> 0]]
  /\ sent = 0
  /\ added = {ListenerFd}

Next ==
  \/ Wait
  \/ ListenerEvent
  \/ ClientEvent
  \/ \E c \in Conns : ClientConnect(c)
  \/ \E c \in Conns, msg \in Messages : ClientSend(c, msg)
  \/ \E c \in Conns : ClientClose(c)
  \/ \E c \in Conns : ClientReset(c)

Spec == Init /\ [][Next]_vars

\* ------------------------------------------- the Multiplexer on its own
\* Any sequence of add, modify and delete calls, on the listener, on accepted
\* streams, on the epoll descriptor itself and on a number that is not open.

\* The kernel with every client in the accept queue.
AllQueued ==
  [Boot EXCEPT !.acceptq = [i \in 1..MaxConns |-> i],
               !.sock = [c \in Conns |-> [Boot.sock[c] EXCEPT !.st = "queued"]]]

\* The kernel after accepting all that is queued.
RECURSIVE AcceptAll(_)
AcceptAll(k) == IF k.acceptq = <<>> THEN k ELSE AcceptAll(SysAccept(k, FALSE).k)

\* The descriptors the calls are made on.
CtlFds == ListenerFd..(EpollFd + MaxConns + 1)

\* The flag sets the calls are made with.
CtlFlagSets == {ListenerFlags, ClientFlags, EPOLLIN \cup EPOLLEXCLUSIVE}

\* The listener and the streams are open and nothing is registered.
CtlInit ==
  /\ pc = "wait"
  /\ batch = <<>>
  /\ clients = <<>>
  /\ out = <<>>
  /\ last = Record("init", NoEvent, Body(Boot, <<>>, <<>>, {}))
  /\ kernel = AcceptAll(AllQueued)
  /\ counts = [c \in Conns |-> [connected |-> 0, disconnected |-> 0]]
  /\ sent = 0
  /\ added = {}

\* The end of one call: the kernel after it, and what it returned.
CtlDone(op, fd, flags, r) ==
  /\ kernel' = r.k
  /\ added' = IF ~r.ok THEN added
              ELSE IF op = "delete" THEN added \ {fd} ELSE added \cup {fd}
  /\ last' = [Record(op, [fd |-> fd, flags |-> flags, of |-> 0],
                     Body(kernel, clients, counts, added)) EXCEPT
                !.fault = IF r.ok THEN "none" ELSE op]
  /\ UNCHANGED <<pc, batch, clients, out, counts, sent>>

\* epoll.add(&fd, flags)
CtlAdd(fd, flags) ==
  \E nomem \in BOOLEAN : CtlDone("add", fd, flags, Epoll_add(kernel, fd, flags, nomem))

\* epoll.modify(&fd, flags)
CtlModify(fd, flags) ==
  CtlDone("modify", fd, flags, Epoll_modify(kernel, fd, flags))

\* epoll.delete(&fd)
CtlDelete(fd) ==
  CtlDone("delete", fd, {}, Epoll_delete(kernel, fd))

CtlNext ==
  \/ \E fd \in CtlFds, flags \in CtlFlagSets : CtlAdd(fd, flags)
  \/ \E fd \in CtlFds, flags \in CtlFlagSets : CtlModify(fd, flags)
  \/ \E fd \in CtlFds : CtlDelete(fd)

CtlSpec == CtlInit /\ [][CtlNext]_vars

\* ------------------------------------------------- tags of registrations
\* add, modify, delete and wait on streams that are open on descriptor
\* numbers small and large, each with bytes queued, so that a registration
\* makes its descriptor ready.

\* The descriptor numbers: around one byte, around two bytes, and the
\* largest a RawFd holds.
TagFds == {5, 255, 256, 65535, 65536, 2147483647}

\* The ways to open the connections on distinct numbers, in increasing order.
TagTables ==
  {f \in [Conns -> TagFds] : \A c, d \in Conns : c < d => f[c] < f[d]}

\* The kernel with connection c open on descriptor f[c], "ping" queued.
TagKernel(f) ==
  [Boot EXCEPT
     !.fdtab = [fd \in {f[c] : c \in Conns} |-> CHOOSE c \in Conns : f[c] = fd],
     !.sock = [c \in Conns |-> [st |-> "open", rx |-> Ping, fin |-> FALSE, rst |-> FALSE]]]

TagInit ==
  /\ pc = "wait"
  /\ batch = <<>>
  /\ clients = <<>>
  /\ out = <<>>
  /\ last = Record("init", NoEvent, Body(Boot, <<>>, <<>>, {}))
  /\ \E f \in TagTables : kernel = TagKernel(f)
  /\ counts = [c \in Conns |-> [connected |-> 0, disconnected |-> 0]]
  /\ sent = 0
  /\ added = {}

\* epoll.wait(timeout), the batch kept as returned.
TagWait ==
  \E order \in Orders(ReadySet(kernel)) :
    LET r == Epoll_wait(kernel, FromSecs(TimeoutSecs), FALSE, order)
    IN  /\ kernel' = r.k
        /\ batch' = r.events
        /\ last' = [Record("wait", NoEvent, Body(kernel, clients, counts, added)) EXCEPT
                      !.n = r.res]
        /\ UNCHANGED <<pc, clients, out, counts, sent, added>>

TagNext ==
  \/ \E fd \in DOMAIN kernel.fdtab, flags \in {ListenerFlags, ClientFlags} : CtlAdd(fd, flags)
  \/ \E fd \in DOMAIN kernel.fdtab : CtlModify(fd, ClientFlags)
  \/ \E fd \in DOMAIN kernel.fdtab : CtlDelete(fd)
  \/ TagWait

TagSpec == TagInit /\ [][TagNext]_vars

\* ------------------------------------------------ decoding of a report
\* What Epoll::wait makes of what the kernel wrote into the buffer, for
\* reports the kernel model above does not produce: words with bits that
\* EventFlags does not declare.

\* Event words: nothing; readable; readable with EPOLLRDNORM (bit 6); only
\* undeclared bits (EPOLLRDNORM, EPOLLMSG); a reset; every declared flag;
\* all 32 bits.
DecodeWords == {{}, EPOLLIN, {0, 6}, {6, 10}, {0, 3, 4, 13}, AllFlags, 0..31}

\* The epoll_event values the kernel may write.
RawEvents ==
  {[events |-> w, u64 |-> AsU64(fd), of |-> 0] : w \in DecodeWords, fd \in {ListenerFd, 5}}

\* The reports: the filled slots of the buffer, in the kernel's order.
Reports == UNION {[1..n -> RawEvents] : n \in 0..MaxReport}

DecodeInit == Init

\* Epoll::wait, lines 144-148, on a report of Len(raw) events.
DecodeWait ==
  \E raw \in Reports :
    LET event_len == Syscall(Len(raw))
    IN  /\ event_len.ok
        /\ batch' = Epoll_collect(raw, event_len.val)
        /\ last' = [Record("wait", NoEvent, Body(kernel, clients, counts, added)) EXCEPT
                      !.n = Len(raw), !.data = raw]
        /\ UNCHANGED <<pc, clients, out, kernel, counts, sent, added>>

DecodeNext == DecodeWait

DecodeSpec == DecodeInit /\ [][DecodeNext]_vars

\* ------------------------------------------------ the timeout of a wait
\* Epoll::wait called with durations other than main's 60 seconds.

\* Duration::new(secs, nanos) for secs below 2^31.
NewDuration(secs, nanos) == [secs |-> Limbs(secs), nanos |-> nanos]

\* Whole seconds: small ones, the ones around 2^31 and 2^32 milliseconds,
\* and the largest below 2^31.
DurationSecs ==
  {0, 1, 59, 60, 61, 3600, 86400, 2147482, 2147483, 2147484, 4294967, 4294968,
   2147483647}

\* Nanoseconds within the second: around one millisecond, and around the
\* 647 and 648 milliseconds that end at 2^31 - 1 and 2^31.
DurationNanos ==
  {0, 1, 999999, 1000000, 500000000, 647000000, 648000000, 999999999}

\* Duration::MAX has u64::MAX seconds.
Durations ==
  {NewDuration(s, n) : s \in DurationSecs, n \in DurationNanos}
    \cup {[secs |-> <<65535, 65535, 65535, 65535>>, nanos |-> 999999999]}

TimeoutInit == Init

\* Epoll::wait(timeout) up to the syscall: the duration asked for and the
\* timeout handed to epoll_wait.
TimeoutWait ==
  \E d \in Durations :
    /\ last' = [Record("wait", NoEvent, Body(kernel, clients, counts, added)) EXCEPT
                  !.data = d, !.n = WaitTimeout(d)]
    /\ UNCHANGED <<pc, batch, clients, out, kernel, counts, sent, added>>

TimeoutNext == TimeoutWait

TimeoutSpec == TimeoutInit /\ [][TimeoutNext]_vars

\* ------------------------------------------------------------------ claims
\* The descriptors registered with the Multiplexer, the listener excluded.
Registered == DOMAIN kernel.interest \ {ListenerFd}

\* Whether client c's connection is in the table.
Tracked(c) == \E fd \in DOMAIN clients : ConnOf(kernel, fd) = c

\* The lines of the given kind the last step printed.
Notes(kind) == {i \in DOMAIN out : out[i].kind = kind}

\* Whether an event carries hangup or peer-half-close.
HasHup(flags) == Contains(flags, EPOLLHUP) \/ Contains(flags, EPOLLRDHUP)

\* C1: while the loop runs, and so after the loop body has processed any
\* event, the keys of the connection table are exactly the descriptors
\* registered with the Multiplexer, the listener excluded.
C1_TableMatchesRegistry == Running => DOMAIN clients = Registered

\* C1's case: a teardown has just been processed while another connection
\* stays tracked.
C1_Witness ==
  /\ last.op = "client"
  /\ last.torn
  /\ pc # "done"
  /\ clients # <<>>

\* C2 as claimed: a failed accept ends neither the loop nor changes table or
\* registry.
C2_AcceptFailureIsTransient ==
  [][(last'.op = "accept" /\ last'.fault = "accept")
       => /\ pc' # "done"
          /\ clients' = clients
          /\ kernel'.interest = kernel.interest]_vars

\* C3 as claimed, in the form a finite run decides: once two clients have
\* connected and stay connected, and the loop is back in wait with nothing
\* left to report, both have had their "connected" line and both are in the
\* table under distinct descriptors.
C3_BothEstablished ==
  (/\ pc = "wait"
   /\ ReadySet(kernel) = {}
   /\ \A c \in {1, 2} : Connected(c))
    => /\ \A c \in {1, 2} : counts[c].connected = 1 /\ Tracked(c)
       /\ Cardinality(DOMAIN clients) >= 2

\* C4 as claimed: what a read event hands on is exactly the bytes the read
\* returned.
C4_ExactBytes ==
  (last.op = "client" /\ last.rd = "ok")
    => \A i \in Notes("data") :
         out[i].text = last.data /\ ByteLen(out[i].text) = last.n

\* The lines of the given kind among the printed lines o.
NotesIn(o, kind) == {i \in DOMAIN o : o[i].kind = kind}

\* C5, in every state: no client has more than one "disconnected" line; a
\* client that had it is Removed (its socket closed, no descriptor, not in the
\* table); and the close of a tracked client is never lost: its descriptor is
\* on the ready list or in the batch with a hangup flag.
C5_State ==
  \A c \in Conns :
    /\ counts[c].disconnected <= 1
    /\ counts[c].disconnected = 1
         => kernel.sock[c].st = "closed" /\ ~Tracked(c) /\ FdsOf(kernel, c) = {}
    /\ (Running /\ Tracked(c) /\ kernel.sock[c].fin)
         => \A fd \in FdsOf(kernel, c) :
              \/ fd \in ReadySet(kernel)
              \/ \E i \in DOMAIN batch : batch[i].fd = fd /\ HasHup(batch[i].flags)

\* C5, in every step: the event that reports the close of a tracked client
\* tears it down; a "disconnected" line is printed once, in the step that
\* deletes the descriptor from the Multiplexer and erases it from the table;
\* Removed is terminal; and a descriptor number becomes a key of the table
\* again only by a later accept, for the connection accepted then.
C5_Step ==
  \A c \in Conns :
    /\ (/\ last'.op = "client"
        /\ HasHup(last'.flags)
        /\ ConnOf(kernel, last'.fd) = c
        /\ kernel.sock[c].fin)
         => counts'[c].disconnected = counts[c].disconnected + 1
    /\ counts'[c].disconnected # counts[c].disconnected
         => /\ counts'[c].disconnected = counts[c].disconnected + 1
            /\ Cardinality(NotesIn(out', "disconnected")) = 1
            /\ Tracked(c)
            /\ last'.fd \in FdsOf(kernel, c)
            /\ last'.fd \notin DOMAIN clients'
            /\ last'.fd \notin DOMAIN kernel'.interest
            /\ kernel'.sock[c].st = "closed"
    /\ kernel.sock[c].st = "closed"
         => kernel'.sock[c].st = "closed" /\ FdsOf(kernel', c) = {}
    /\ \A fd \in DOMAIN clients' \ DOMAIN clients :
         last'.op = "accept" /\ last'.fault = "none" /\ ConnOf(kernel', fd) = last'.conn

\* C5: when a tracked client closes its side, one "connection closed" line is
\* printed for it, its descriptor is deleted from the Multiplexer and erased
\* from the table, and the connection stays Removed.
C5_CloseTearsDownOnce == []C5_State /\ [][C5_Step]_vars

\* C5's case: a client that closed its side has just been torn down.
C5_Witness ==
  /\ last.op = "client"
  /\ last.torn
  /\ ~Contains(last.flags, EPOLLHUP)
  /\ last.conn # 0
  /\ counts[last.conn].disconnected = 1

\* C6, in every step on the listener: an accept that succeeds together with
\* its registration prints one "connected" line with the peer's address, and
\* the new descriptor is a key of the table and registered for {readable,
\* edge-triggered, hangup, peer-half-close}; after a failed registration (or a
\* failed accept) nothing is inserted and nothing is printed.
C6_Step ==
  last'.op = "accept" =>
    IF last'.fault = "none"
    THEN LET c == last'.conn
         IN  /\ c = Head(kernel.acceptq)
             /\ Len(out') = 1
             /\ out'[1].kind = "connected"
             /\ out'[1].addr = PeerAddr(c)
             /\ counts[c].connected = 0
             /\ counts'[c].connected = 1
             /\ \E fd \in FdsOf(kernel', c) :
                  /\ fd \notin DOMAIN clients
                  /\ DOMAIN clients' = DOMAIN clients \cup {fd}
                  /\ clients'[fd].addr = PeerAddr(c)
                  /\ fd \in DOMAIN kernel'.interest
                  /\ kernel'.interest[fd].events = {0, 4, 13, 31}
    ELSE /\ clients' = clients
         /\ out' = <<>>
         /\ counts' = counts
         /\ DOMAIN kernel'.interest = DOMAIN kernel.interest

\* C6: every successful accept gives one "connection established" line and a
\* connection that is in the table and registered by the end of the event;
\* a connection whose registration fails is not inserted.
C6_AcceptRegistersAtomically ==
  [](\A c \in Conns : counts[c].connected <= 1) /\ [][C6_Step]_vars

\* C6's case: an accept and its registration have just succeeded.
C6_Witness ==
  /\ last.op = "accept"
  /\ last.fault = "none"
  /\ Tracked(last.conn)

\* C7, in every call: modify and delete fail on a descriptor that is not
\* registered, add fails on one that is, a failed call changes no
\* registration, and a successful call registers (add, modify: with the flags
\* given) or unregisters (delete) the descriptor.
C7_Step ==
  last'.op \in {"add", "modify", "delete"} =>
    LET fd == last'.fd
        ok == last'.fault = "none"
    IN  /\ (last'.op \in {"modify", "delete"} /\ fd \notin added) => ~ok
        /\ (last'.op = "add" /\ fd \in added) => ~ok
        /\ ~ok => kernel'.interest = kernel.interest /\ added' = added
        /\ (ok /\ last'.op = "delete")
             => fd \notin added' /\ fd \notin DOMAIN kernel'.interest
        /\ (ok /\ last'.op # "delete")
             => /\ fd \in added'
                /\ fd \in DOMAIN kernel'.interest
                /\ kernel'.interest[fd].events = last'.flags

\* C7: over every sequence of add, modify and delete calls, the descriptors
\* with a successful add not followed by a successful delete are exactly the
\* registered ones, and each call fails or succeeds by that state: modify and
\* delete fail unless registered, add fails when registered, a failed call
\* changes nothing (so a second delete fails too).
C7_RegistryProtocol == [](added = DOMAIN kernel.interest) /\ [][C7_Step]_vars

\* C7's case: a delete has just failed on an open descriptor that is not
\* registered while another descriptor is.
C7_Witness ==
  /\ last.op = "delete"
  /\ last.fault = "delete"
  /\ last.fd \in DOMAIN kernel.fdtab
  /\ last.fd \notin added
  /\ added # {}

\* C8 as claimed: a read that returns 0 bytes or an error leaves the
\* connection neither in the table nor registered.
C8_ReadEndDestroys ==
  (last.op = "client" /\ (last.rd = "err" \/ (last.rd = "ok" /\ last.n = 0)))
    => /\ last.fd \notin DOMAIN clients
       /\ last.fd \notin DOMAIN kernel.interest

\* C9: every key of the table is the raw descriptor of the stream stored
\* under it, and the address stored with it is the peer address of the
\* connection that descriptor is open on; a read for an event reads the
\* connection the event was raised for and is printed under its address.
C9_NoAlias ==
  /\ \A fd \in DOMAIN clients :
       /\ clients[fd].stream = fd
       /\ fd \in DOMAIN kernel.fdtab
       /\ clients[fd].addr = PeerAddr(kernel.fdtab[fd])
  /\ (last.op = "client" /\ last.rd # "none")
       => /\ last.conn # 0
          /\ last.conn = last.of
          /\ \A i \in Notes("data") : out[i].addr = PeerAddr(last.conn)

\* C9's case: client 1 was served and torn down, and the accept of client 2
\* has just reused its descriptor number.
C9_Witness ==
  /\ last.op = "accept"
  /\ last.fault = "none"
  /\ last.conn = 2
  /\ counts[1].disconnected = 1
  /\ DOMAIN clients = {5}
  /\ kernel.fdtab[5] = 2

\* C10: a wait that times out (the kernel reports 0 events) is a success with
\* an empty batch, and the loop answers it with another wait: table, registry
\* and line counts are unchanged and nothing is printed.
C10_TimeoutIsNoOp ==
  [][(last'.op = "wait" /\ last'.n = 0)
       => /\ last'.fault = "none"
          /\ batch' = <<>>
          /\ pc' = "wait"
          /\ clients' = clients
          /\ kernel'.interest = kernel.interest
          /\ kernel'.fdtab = kernel.fdtab
          /\ counts' = counts
          /\ out' = <<>>]_vars

\* C10's case: a wait has just timed out while a client is connected.
C10_Witness ==
  /\ last.op = "wait"
  /\ last.n = 0
  /\ pc = "wait"
  /\ clients # <<>>

\* The kinds of the lines the last step printed, in order.
Kinds == [i \in DOMAIN out |-> out[i].kind]

C12_Step ==
  (last'.op = "client" /\ Contains(last'.flags, EPOLLIN)) =>
    LET fd == last'.fd
        c == ConnOf(kernel, fd)
        rx == kernel.sock[c].rx
    IN  /\ c # 0
        /\ last'.rd # "none"
        /\ last'.conn = c
        /\ last'.rd = "ok"
             => /\ last'.n = Min(ByteLen(rx), BufSize)
                /\ last'.n <= BufSize
                /\ last'.data = Take(rx, BufSize)
                /\ Cardinality(NotesIn(out', "data")) = 1
                /\ ~last'.torn => kernel'.sock[c].rx = Drop(rx, BufSize)
        /\ last'.rd = "err" => kernel' = kernel /\ out' = <<>>
        /\ ~HasHup(last'.flags)
             => /\ clients' = clients
                /\ fd \in DOMAIN clients'
                /\ kernel'.interest = kernel.interest
                /\ fd \in DOMAIN kernel'.interest
                /\ kernel'.fdtab = kernel.fdtab

\* C12: every readable event on a client gets exactly one read of at most
\* 1024 bytes, and without hangup or peer-half-close in the event the
\* connection stays in the table and registered, whatever the read returned.
C12_OneBoundedRead == [][C12_Step]_vars

\* C12's case: a readable event without hangup flags was answered by one
\* read that filled the buffer and left a byte queued; the connection is
\* still in the table and registered.
C12_Witness ==
  /\ last.op = "client"
  /\ last.flags = EPOLLIN
  /\ last.rd = "ok"
  /\ last.n = BufSize
  /\ last.fd \in DOMAIN clients
  /\ last.fd \in DOMAIN kernel.interest
  /\ kernel.sock[last.conn].rx # <<>>

\* A step of the loop itself: a wait, or one pass of the for loop.
LoopStep == Wait \/ ListenerEvent \/ ClientEvent

\* C13: after a read on a client's connection has returned an error, main has
\* ended with that error: the loop takes no further step (neither on the
\* events left in the batch nor a later wait), nothing was printed for the
\* event, and the connection's teardown was not run (no "disconnected" line;
\* its descriptor is still in the table and still registered).
C13_ReadErrorIsFatal ==
  (last.op = "client" /\ last.rd = "err")
    => /\ last.fault = "read"
       /\ pc = "done"
       /\ ~ENABLED LoopStep
       /\ out = <<>>
       /\ ~last.torn
       /\ counts[last.conn].disconnected = 0
       /\ last.fd \in DOMAIN clients
       /\ last.fd \in DOMAIN kernel.interest

\* C13's case: the read of a reset connection failed while an event of
\* another connection, which is in the table, was still in the batch.
C13_Witness ==
  /\ last.op = "client"
  /\ last.rd = "err"
  /\ batch # <<>>
  /\ Head(batch).fd \in DOMAIN clients
  /\ Head(batch).fd # last.fd

\* C14, in every step: a step in which epoll.add of the accepted stream,
\* epoll.delete of the teardown or epoll.wait fails ends main, and in that
\* step the table is not changed and the set of registered descriptors is
\* not changed; table and registry agree afterwards. A stream whose add
\* failed is closed, never inserted and never announced.
C14_Step ==
  last'.fault \in {"add", "delete", "wait"} =>
    /\ pc' = "done"
    /\ clients' = clients
    /\ DOMAIN kernel'.interest = DOMAIN kernel.interest
    /\ DOMAIN clients' = DOMAIN kernel'.interest \ {ListenerFd}
    /\ counts' = counts
    /\ last'.fault = "add"
         => /\ out' = <<>>
            /\ kernel'.fdtab = kernel.fdtab
            /\ kernel'.sock[last'.conn].st = "closed"
    /\ last'.fault = "wait" => kernel' = kernel /\ batch' = <<>>

\* C14, in every state, for the delete that cannot fail while table and
\* registry agree: were a tracked descriptor already deleted from the
\* Multiplexer, the teardown's delete would be rejected, the teardown would
\* end main there, and the table would not be changed.
C14_State ==
  \A fd \in DOMAIN clients :
    LET k0 == Epoll_delete(kernel, fd).k
        m == HupBranch(Body(k0, clients, counts, added),
                       [fd |-> fd, flags |-> EPOLLRDHUP, of |-> ConnOf(kernel, fd)])
    IN  /\ m.fault = "delete"
        /\ m.clients = clients
        /\ m.k = k0
        /\ ~m.torn

\* C14: a rejected add or delete and a failed wait end the loop without
\* changing the table: nothing is inserted after a failed add and nothing is
\* erased after a failed delete.
C14_CtlFailureIsFatal == []C14_State /\ [][C14_Step]_vars

\* C14's case: the add of a stream just accepted was rejected while another
\* connection is in the table; main has ended and the table is as it was.
C14_Witness ==
  /\ last.op = "accept"
  /\ last.fault = "add"
  /\ pc = "done"
  /\ clients # <<>>
  /\ last.conn # 0
  /\ ~Tracked(last.conn)

\* C15: while the loop runs the listener's descriptor is registered, with the
\* flags given at startup, and is not a key of the table. An event on it is
\* taken by the listener's branch alone, before any lookup: the step makes
\* one accept attempt (it fails, or it returns one connection) and does no
\* read, no lookup in the table and no teardown.
C15_ListenerIsPermanent ==
  /\ Running
       => /\ ListenerFd \in DOMAIN kernel.interest
          /\ kernel.interest[ListenerFd].events = ListenerFlags
          /\ ListenerFd \in added
  /\ ListenerFd \notin DOMAIN clients
  /\ \A fd \in DOMAIN clients : clients[fd].stream # ListenerFd
  /\ (last.op \in {"accept", "client"} /\ last.fd = ListenerFd)
       => /\ last.op = "accept"
          /\ (last.fault = "accept" /\ last.conn = 0)
               \/ (last.fault \in {"none", "add"} /\ last.conn # 0)
          /\ last.rd = "none"
          /\ ~last.torn
          /\ Notes("data") = {}
          /\ Notes("hup") = {}
          /\ Notes("disconnected") = {}
          /\ Cardinality(Notes("connected")) <= 1
  /\ last.op = "accept" => last.fd = ListenerFd

\* C15's case: the listener's event has been answered by an accept for the
\* second time, after the first connection was torn down; the listener is
\* still registered.
C15_Witness ==
  /\ last.op = "accept"
  /\ last.fd = ListenerFd
  /\ last.fault = "none"
  /\ last.conn = 2
  /\ counts[1].disconnected = 1
  /\ ListenerFd \in DOMAIN kernel.interest
  /\ pc # "done"

\* C16: no step of the loop ends in a failed lookup, and every event still
\* in the batch that is not the listener's is on a descriptor that is in the
\* table now, open on the connection the event was raised for, whatever the
\* order of the batch and whatever the events before it did (an accept
\* earlier in the batch may have reused a number closed earlier in the batch).
C16_LookupNeverFails ==
  /\ last.fault # "lookup"
  /\ (last.op = "client" /\ (Contains(last.flags, EPOLLIN) \/ HasHup(last.flags)))
       => last.conn # 0 /\ last.conn = last.of
  /\ \A i \in DOMAIN batch :
       batch[i].fd # ListenerFd
         => /\ batch[i].fd \in DOMAIN clients
            /\ ConnOf(kernel, batch[i].fd) = batch[i].of
            /\ \A j \in DOMAIN batch : batch[j].fd = batch[i].fd => j = i

\* C16's case: in one batch the teardown of a connection has found and
\* closed its descriptor, and the listener's event that follows will be
\* answered by an accept that takes the same number again.
C16_Witness ==
  /\ last.op = "client"
  /\ last.torn
  /\ pc = "events"
  /\ Head(batch).fd = ListenerFd
  /\ kernel.acceptq # <<>>
  /\ LowestFree(kernel) = last.fd

\* Client c is starved in the state of table cl, kernel k and batch b: its
\* connection is in the table and open, bytes are queued for it, and nothing
\* will tell the loop: its descriptor is neither on the ready list nor in
\* the batch.
StrandedIn(k, cl, b, c) ==
  /\ \E fd \in DOMAIN cl : ConnOf(k, fd) = c
  /\ k.sock[c].rx # <<>>
  /\ ~k.sock[c].fin
  /\ ~k.sock[c].rst
  /\ FdsOf(k, c) \cap k.rdlist = {}
  /\ \A i \in DOMAIN b : b[i].fd \notin FdsOf(k, c)

\* Client c is starved now.
Stranded(c) == StrandedIn(kernel, clients, batch, c)

\* C17, in every step: a descriptor that a wait reports leaves the ready
\* list (one event per readiness transition); the read for an event on more
\* than 1024 queued bytes takes the first 1024 and leaves the rest; if the
\* client has caused no new wakeup since, the connection is then starved;
\* and a starved connection stays starved, its bytes unread, through every
\* step of the loop and of other clients, until the client itself sends
\* again, closes or resets.
C17_Step ==
  /\ last'.op = "wait"
       => \A i \in DOMAIN batch' : batch'[i].fd \notin kernel'.rdlist
  /\ (last'.op = "client" /\ last'.rd = "ok")
       => LET fd == last'.fd
              c == ConnOf(kernel, fd)
              rx == kernel.sock[c].rx
          IN  ByteLen(rx) > BufSize
                => /\ last'.n = BufSize
                   /\ ~last'.torn
                        => /\ ByteLen(kernel'.sock[c].rx) = ByteLen(rx) - BufSize
                           /\ (~HasHup(last'.flags) /\ fd \notin kernel.rdlist)
                                => StrandedIn(kernel', clients', batch', c)
  /\ \A c \in Conns :
       Stranded(c)
         => \/ /\ StrandedIn(kernel', clients', batch', c)
               /\ kernel'.sock[c].rx = kernel.sock[c].rx
            \/ last'.op = "peer" /\ kernel'.sock[c] # kernel.sock[c]

\* C17: a client that made more than 1024 bytes available in one readiness
\* transition, and then neither sends nor closes, has only its first 1024
\* bytes read: no further event is delivered for it and the rest stays
\* unread.
C17_Starvation == [][C17_Step]_vars

\* C17's case: a client sent 1025 bytes, 1024 were read, and a later wait
\* has timed out with the last byte still queued and the connection starved.
C17_Witness ==
  /\ last.op = "wait"
  /\ last.n = 0
  /\ pc = "wait"
  /\ \E c \in Conns : Stranded(c) /\ ByteLen(kernel.sock[c].rx) = 1

\* C18: the tag of every registration made by add or modify is the
\* descriptor's number as a u64 (upper half zero, lower half the number),
\* and every event a wait returns names a descriptor that was registered,
\* the one the kernel raised the event for: narrowing the tag gives back the
\* number that was widened.
C18_TagRoundTrip ==
  /\ \A fd \in DOMAIN kernel.interest :
       /\ kernel.interest[fd].u64 = [hi |-> 0, lo |-> fd]
       /\ U64AsI32(kernel.interest[fd].u64) = fd
  /\ \A i \in DOMAIN batch :
       /\ batch[i].fd \in DOMAIN kernel.fdtab
       /\ kernel.fdtab[batch[i].fd] = batch[i].of

\* C18's case: a wait has returned events for two registrations, one of them
\* on a number that needs more than 16 bits, made by add and registered for the flags of a client.
C18_Witness ==
  /\ last.op = "wait"
  /\ Len(batch) >= 2
  /\ \E i \in DOMAIN batch :
       /\ batch[i].fd > 65535
       /\ batch[i].fd \in DOMAIN kernel.interest
       /\ kernel.interest[batch[i].fd].events = ClientFlags
       /\ batch[i].flags = EPOLLIN

\* C19: whatever words the kernel reports, wait returns as many events as
\* the kernel counted, in the kernel's order, and the flags of each are the
\* bits of its word that are among the ten declared flags (bits 0, 1, 2, 3,
\* 4, 13, 28, 29, 30, 31): every declared bit is kept, every other bit is
\* dropped, and no word is refused.
C19_DecodingTruncates ==
  last.op = "wait"
    => /\ Len(batch) = last.n
       /\ \A i \in 1..last.n :
            /\ batch[i].flags = last.data[i].events \cap {0, 1, 2, 3, 4, 13, 28, 29, 30, 31}
            /\ batch[i].fd = last.data[i].u64.lo

\* C19's case: a report of two events, the first with an undeclared bit
\* beside readable, the second with all 32 bits set, on different descriptors.
C19_Witness ==
  /\ last.op = "wait"
  /\ last.n = 2
  /\ last.data[1].events = {0, 6}
  /\ last.data[2].events = 0..31
  /\ batch[1].flags = EPOLLIN
  /\ batch[1].fd # batch[2].fd

\* Whether the u128 ms, in base-65536 digits, is the non-negative i32 n.
SameMillis(ms, n) ==
  /\ n >= 0
  /\ \A i \in DOMAIN ms :
       ms[i] = IF i = 1 THEN n % Limb ELSE IF i = 2 THEN n \div Limb ELSE 0

\* C20 as claimed: for every duration given to wait, the timeout handed to
\* epoll_wait is not negative and is the duration's count of whole
\* milliseconds, so that a wait with nothing ready returns when it runs out.
C20_TimeoutNeverWraps ==
  last.op = "wait"
    => /\ last.n >= 0
       /\ SameMillis(AsMillis(last.data), last.n)
       /\ WaitReturns(kernel, last.n)
====
